---- MODULE Spec2Model ----
(***************************************************************************)
(* Bingo rooms: BingoCard / BingoGame ("AI Bingo/app.py"), the REST        *)
(* boundary bingo_action ("ai_bingo/bingo_api.py") and the Streamlit       *)
(* boundary (render_* of "AI Bingo/app.py").                               *)
(*                                                                         *)
(* A Python dict is a pair: its keys in insertion order (order) and the    *)
(* mapping itself (players).  Every use of the random module is an input   *)
(* of the operation that reaches it.  The wall clock of maybe_auto_call is *)
(* an input as well (elapsed), timestamps are not kept.                    *)
(*                                                                         *)
(* A method or a request handler is an operator from the state it reads    *)
(* and its inputs to what it returns and the state it leaves: ret / status *)
(* and g / games.  The action of a handler moves the store to the state    *)
(* the handler leaves.                                                     *)
(***************************************************************************)
EXTENDS Integers, Sequences, FiniteSets, TLC

VARIABLES
    games,   \* get_global_games(): room code -> BingoGame
    seed,    \* exhaustion runs: the seed of the random source
    calls,   \* exhaustion runs: how many times call_number was called
    ret,     \* exhaustion runs: what the last call_number returned
    workers  \* thread runs: where each request thread is in its handler

vars == <<games, seed, calls, ret, workers>>

(* ------------------------------ bounds -------------------------------- *)

\* number of different grids random.sample can hand to BingoCard()
NumCards == 1
\* the first random.choice of a round picks one of the DrawWidth smallest
\* candidates, the later ones the smallest
DrawWidth == 1
\* the random source of an exhaustion run always returns seed / RandDenom,
\* seed in 0 .. RandDenom - 1
RandDenom == 3
\* an exhaustion run makes up to MaxCalls calls
MaxCalls == 77
\* a marking run marks up to MaxMarks cells besides the Free cell
MaxMarks == 5
\* number of different grids random.sample can hand to BingoCard() in a
\* card run
NumGrids == 2

(* ----------------------------- constants ------------------------------ *)

None == "None"

\* None where the value is an Optional[int]
NoNumber == -1

BINGO_NUMBERS == 1..75

Range5 == 0..4

FreeCell == <<2, 2>>

\* two names that differ only in case
Names == {"alice", "Alice"}

\* what a request or a text input can carry as a user name
Usernames == Names \cup {None, ""}

\* the codes random.choices can produce here, and one it never produces
RoomCodes == {"R1"}
UnknownCode == "ZZZZZZ"
CodeInputs == RoomCodes \cup {None, UnknownCode}

\* the threads that run requests side by side
Workers == {"w1", "w2"}

\* a thread that runs no request
Idle == [pc |-> "idle", i |-> 0, player_name |-> None, number |-> NoNumber]

NoWorkers == [w \in Workers |-> Idle]

Min(S) == CHOOSE x \in S : \A y \in S : x <= y

\* Python truthiness of an Optional[str]
Falsy(x) == x = None \/ x = ""

(* ------------------------------ BingoCard ----------------------------- *)

\* grids of generate_card: column c holds five distinct numbers of
\* 15c+1 .. 15c+15; grid 1 has 3,18,33,48,63 on row 2, grid 2 on the main
\* diagonal, later grids on no line
\* fault: columns sampled from range(15c, 15c + 15)
generate_card_shifted(k) ==
    [c \in Range5 |-> [r \in Range5 |-> 15 * c + ((r + (k - 1) * (7 - c)) % 5)]]

generate_card(k) ==
    [c \in Range5 |-> [r \in Range5 |-> 15 * c + 1 + ((r + (k - 1) * (7 - c)) % 5)]]

CardChoices == 1..NumCards

BingoCard(k) == [card |-> generate_card(k), marked |-> {FreeCell}]

find_position(card, number) ==
    LET cols == {c \in Range5 : \E r \in Range5 : card.card[c][r] = number}
    IN  IF cols = {} THEN None
        ELSE LET col_index == Min(cols)
                 row_index == Min({r \in Range5 : card.card[col_index][r] = number})
             IN  <<col_index, row_index>>

\* fault: toggle_mark without the test for the Free cell
toggle_mark_unmarks_free(card, col_index, row_index) ==
    LET key == <<col_index, row_index>>
    IN  IF key \in card.marked THEN [card EXCEPT !.marked = @ \ {key}]
        ELSE [card EXCEPT !.marked = @ \cup {key}]

toggle_mark(card, col_index, row_index) ==
    LET key == <<col_index, row_index>>
    IN  IF key \in card.marked
        THEN IF key = FreeCell THEN card
             ELSE [card EXCEPT !.marked = @ \ {key}]
        ELSE [card EXCEPT !.marked = @ \cup {key}]

\* fault: clear_marks that leaves the marks in place
clear_marks_keeps(card) == card

clear_marks(card) == [card EXCEPT !.marked = {FreeCell}]

\* fault: check_bingo without the second diagonal
check_bingo_one_diagonal(card) ==
    \/ \E c \in Range5 : \A r \in Range5 : <<c, r>> \in card.marked
    \/ \E r \in Range5 : \A c \in Range5 : <<c, r>> \in card.marked
    \/ \A i \in Range5 : <<i, i>> \in card.marked

check_bingo(card) ==
    \/ \E c \in Range5 : \A r \in Range5 : <<c, r>> \in card.marked
    \/ \E r \in Range5 : \A c \in Range5 : <<c, r>> \in card.marked
    \/ \A i \in Range5 : <<i, i>> \in card.marked
    \/ \A i \in Range5 : <<i, 4 - i>> \in card.marked

(* ------------------------------ BingoGame ----------------------------- *)

BingoGame ==
    [order |-> <<>>, players |-> [n \in {} |-> BingoCard(1)], called_numbers_ordered |-> <<>>,
     started |-> FALSE, winner |-> None, host_name |-> None]

SeqRange(s) == {s[i] : i \in 1..Len(s)}

PlayerKeys(g) == SeqRange(g.order)

called_numbers(g) == SeqRange(g.called_numbers_ordered)

\* self.players[name] = card, for a new key or an existing one
SetItem(g, name, card) ==
    [g EXCEPT !.order = IF name \in PlayerKeys(g) THEN @ ELSE Append(@, name),
              !.players = [n \in PlayerKeys(g) \cup {name} |->
                              IF n = name THEN card ELSE g.players[n]]]

\* del self.players[name]
DelItem(g, name) ==
    [g EXCEPT !.order = SelectSeq(@, LAMBDA n : n # name),
              !.players = [n \in PlayerKeys(g) \ {name} |-> g.players[n]]]

\* fault: add_player without the membership test
add_player_replaces(g, name, k) ==
    [g |-> SetItem(g, name, BingoCard(k)), ret |-> TRUE]

add_player(g, name, k) ==
    IF name \notin PlayerKeys(g)
    THEN [g |-> SetItem(g, name, BingoCard(k)), ret |-> TRUE]
    ELSE [g |-> g, ret |-> FALSE]

\* fault: start_game that also forgets the called numbers
start_game_clears_calls(g) ==
    [g EXCEPT !.started = TRUE, !.winner = None, !.called_numbers_ordered = <<>>]

start_game(g) == [g EXCEPT !.started = TRUE, !.winner = None]

\* fault: the called numbers are not taken out of the candidates
remaining_numbers_forgets(g) == BINGO_NUMBERS

remaining_numbers(g) == BINGO_NUMBERS \ called_numbers(g)

\* fault: call_number that gives up with one number left
call_number_stops_early(g, number) ==
    IF Cardinality(remaining_numbers(g)) <= 1 THEN [g |-> g, ret |-> NoNumber]
    ELSE [g |-> [g EXCEPT !.called_numbers_ordered = Append(@, number)],
          ret |-> number]

\* number is the result of random.choice(remaining_numbers)
call_number(g, number) ==
    IF remaining_numbers(g) = {} THEN [g |-> g, ret |-> NoNumber]
    ELSE [g |-> [g EXCEPT !.called_numbers_ordered = Append(@, number)],
          ret |-> number]

\* elapsed: now - last_called_ts >= call_interval_sec (or no timestamp yet)
maybe_auto_call(g, elapsed, number) ==
    IF ~g.started \/ g.winner # None THEN [g |-> g, ret |-> NoNumber]
    ELSE IF elapsed THEN call_number(g, number)
    ELSE [g |-> g, ret |-> NoNumber]

\* fault: check_winner without the test that no winner is recorded
check_winner_overwrites(g) ==
    LET hits == {i \in 1..Len(g.order) : check_bingo(g.players[g.order[i]])}
    IN  IF hits = {} THEN [g |-> g, ret |-> None]
        ELSE [g |-> [g EXCEPT !.winner = g.order[Min(hits)]],
              ret |-> g.order[Min(hits)]]

check_winner(g) ==
    LET hits == {i \in 1..Len(g.order) : check_bingo(g.players[g.order[i]])}
    IN  IF hits = {} THEN [g |-> g, ret |-> None]
        ELSE LET player_name == g.order[Min(hits)]
             IN  [g |-> IF g.winner = None THEN [g EXCEPT !.winner = player_name]
                        ELSE g,
                  ret |-> player_name]

\* fault: reset_round that keeps the marks of kept cards
reset_round_keeps_marks(g, keep_cards, ks) ==
    [g EXCEPT !.called_numbers_ordered = <<>>,
              !.winner = None,
              !.started = FALSE,
              !.players = [n \in PlayerKeys(g) |->
                              IF keep_cards THEN g.players[n]
                              ELSE BingoCard(ks[n])]]

\* ks[name]: the grid the new BingoCard() of name gets
reset_round(g, keep_cards, ks) ==
    [g EXCEPT !.called_numbers_ordered = <<>>,
              !.winner = None,
              !.started = FALSE,
              !.players = [n \in PlayerKeys(g) |->
                              IF keep_cards THEN clear_marks(g.players[n])
                              ELSE BingoCard(ks[n])]]

(* ------------------------- the random source -------------------------- *)

\* the numbers random.choice returns in Spec: 3, 18, 33, 48, 63, the ones
\* on the line through the Free cell of grids 1 and 2
CallPool == {generate_card(1)[c][2] : c \in Range5}

SmallestK(S, k) == {n \in S : Cardinality({m \in S : m < n}) < k}

\* what random.choice(remaining_numbers) returns in Spec
Draws(g) ==
    SmallestK(remaining_numbers(g) \cap CallPool,
              IF g.called_numbers_ordered = <<>> THEN DrawWidth ELSE 1)

(* --------------------- bingo_action (REST boundary) ------------------- *)

\* str.strip() on the inputs used here
strip(s) ==
    CASE s = " " -> ""
      [] s = " alice " -> "alice"
      [] OTHER -> s

\* fault: one game object shared by all the codes of the store
SetRoom_shared(code, g) == [c \in DOMAIN games \cup {code} |-> g]

SetRoom(code, g) == [c \in DOMAIN games \cup {code} |-> IF c = code THEN g ELSE games[c]]

\* raise HTTPException(status_code=status): the store is as it was
Raise(status) == [status |-> status, games |-> games]

\* return {...} with the room left as g
Return(code, g) == [status |-> 200, games |-> SetRoom(code, g)]

\* lines 66-71: the room lookup shared by every action but create
NoRoom(code) == Falsy(code) \/ code \notin DOMAIN games

RaiseNoRoom(code) == IF Falsy(code) THEN Raise(400) ELSE Raise(404)

\* room_code is the result of generate_room_code, k the new card's grid
created_game(username, k) ==
    LET game == BingoGame
    IN  IF ~Falsy(username)
        THEN add_player([game EXCEPT !.host_name = username], username, k).g
        ELSE game

action_create(room_code, username, k) == Return(room_code, created_game(username, k))

action_join(code, username, k) ==
    IF NoRoom(code) THEN RaiseNoRoom(code)
    ELSE LET game == games[code]
         IN  IF Falsy(username) \/ Falsy(strip(username)) THEN Raise(400)
             ELSE Return(code,
                         add_player(IF Falsy(game.host_name)
                                    THEN [game EXCEPT !.host_name = username]
                                    ELSE game, username, k).g)

\* fault: start without the host test
action_start_anyone(code, username) ==
    IF NoRoom(code) THEN RaiseNoRoom(code)
    ELSE Return(code, start_game(games[code]))

action_start(code, username) ==
    IF NoRoom(code) THEN RaiseNoRoom(code)
    ELSE LET game == games[code]
         IN  IF username # game.host_name THEN Raise(403)
             ELSE Return(code, start_game(game))

\* fault: call without the test that the game is started
action_call_anytime(code, username, number) ==
    IF NoRoom(code) THEN RaiseNoRoom(code)
    ELSE LET game == games[code]
         IN  IF username # game.host_name THEN Raise(403)
             ELSE Return(code, call_number(game, number).g)

\* number is the result of random.choice in call_number
action_call(code, username, number) ==
    IF NoRoom(code) THEN RaiseNoRoom(code)
    ELSE LET game == games[code]
         IN  IF username # game.host_name THEN Raise(403)
             ELSE IF ~game.started THEN Raise(400)
             ELSE Return(code, call_number(game, number).g)

\* fault: mark without the call of check_winner
action_mark_unchecked(code, username, number) ==
    IF NoRoom(code) THEN RaiseNoRoom(code)
    ELSE LET game == games[code]
         IN  IF Falsy(username) \/ number = NoNumber THEN Raise(400)
             ELSE IF username \notin PlayerKeys(game) THEN Raise(404)
             ELSE LET player == game.players[username]
                      pos == find_position(player, number)
                  IN  IF number # 0 /\ number \notin called_numbers(game) THEN Raise(400)
                      ELSE IF number # 0 /\ pos = None THEN Raise(400)
                      ELSE Return(code,
                                  IF number # 0 /\ pos # FreeCell
                                  THEN [game EXCEPT !.players[username].marked =
                                                        @ \cup {pos}]
                                  ELSE game)

\* fault: mark without the test that the number was called
action_mark_uncalled(code, username, number) ==
    IF NoRoom(code) THEN RaiseNoRoom(code)
    ELSE LET game == games[code]
         IN  IF Falsy(username) \/ number = NoNumber THEN Raise(400)
             ELSE IF username \notin PlayerKeys(game) THEN Raise(404)
             ELSE LET player == game.players[username]
                      pos == find_position(player, number)
                  IN  IF number # 0 /\ pos = None THEN Raise(400)
                      ELSE Return(code,
                                  check_winner(
                                      IF number # 0 /\ pos # FreeCell
                                      THEN [game EXCEPT !.players[username].marked =
                                                            @ \cup {pos}]
                                      ELSE game).g)

action_mark(code, username, number) ==
    IF NoRoom(code) THEN RaiseNoRoom(code)
    ELSE LET game == games[code]
         IN  IF Falsy(username) \/ number = NoNumber THEN Raise(400)
             ELSE IF username \notin PlayerKeys(game) THEN Raise(404)
             ELSE LET player == game.players[username]
                      pos == find_position(player, number)
                  IN  IF number # 0 /\ number \notin called_numbers(game) THEN Raise(400)
                      ELSE IF number # 0 /\ pos = None THEN Raise(400)
                      ELSE Return(code,
                                  check_winner(
                                      IF number # 0 /\ pos # FreeCell
                                      THEN [game EXCEPT !.players[username].marked =
                                                            @ \cup {pos}]
                                      ELSE game).g)

action_state(code) ==
    IF NoRoom(code) THEN RaiseNoRoom(code)
    ELSE Return(code, games[code])

action_restart_round(code, username, new_cards, ks) ==
    IF NoRoom(code) THEN RaiseNoRoom(code)
    ELSE LET game == games[code]
         IN  IF username # game.host_name THEN Raise(403)
             ELSE Return(code, reset_round(game, ~new_cards, ks))

\* fault: leave that forgets the winner with the player
action_leave_clears_winner(code, username) ==
    IF NoRoom(code) THEN RaiseNoRoom(code)
    ELSE LET game == games[code]
         IN  IF Falsy(username) THEN Raise(400)
             ELSE Return(code, IF username \in PlayerKeys(game)
                               THEN [DelItem(game, username) EXCEPT !.winner =
                                        IF @ = username THEN None ELSE @]
                               ELSE game)

action_leave(code, username) ==
    IF NoRoom(code) THEN RaiseNoRoom(code)
    ELSE LET game == games[code]
         IN  IF Falsy(username) THEN Raise(400)
             ELSE Return(code, IF username \in PlayerKeys(game)
                               THEN DelItem(game, username) ELSE game)

\* any other action string
action_invalid(code) ==
    IF NoRoom(code) THEN RaiseNoRoom(code) ELSE Raise(400)

\* the grids of the new cards of a round: one choice for every player
NewCards(code) ==
    IF code \in DOMAIN games THEN [PlayerKeys(games[code]) -> CardChoices]
    ELSE {[n \in {} |-> 1]}

Handled(out) == games' = out.games /\ UNCHANGED <<seed, calls, ret, workers>>

RestCreate(room_code, username, k) == Handled(action_create(room_code, username, k))

RestJoin(code, username, k) == Handled(action_join(code, username, k))

RestStart(code, username) == Handled(action_start(code, username))

RestCall(code, username) ==
    IF code \in DOMAIN games /\ remaining_numbers(games[code]) # {}
    THEN \E number \in Draws(games[code]) : Handled(action_call(code, username, number))
    ELSE Handled(action_call(code, username, NoNumber))

RestMark(code, username, number) == Handled(action_mark(code, username, number))

RestState(code) == Handled(action_state(code))

RestRestartRound(code, username, new_cards) ==
    \E ks \in NewCards(code) : Handled(action_restart_round(code, username, new_cards, ks))

RestLeave(code, username) == Handled(action_leave(code, username))

RestInvalid(code) == Handled(action_invalid(code))

(* ----------------------- the Streamlit boundary ----------------------- *)

\* A browser session is (room_code, player_name, is_host).  Join Room and
\* Enter Room let a session hold any room code of the store and any name,
\* and Generate Room Code sets is_host: the three are inputs of the run.
\* A run is enabled when main() reaches the control with that session.

\* render_landing, Generate Room Code
landing_generate(room_code) == SetRoom(room_code, BingoGame)

\* render_name_entry, Enter Room
name_entry(code, name, is_host, k) ==
    LET game == games[code]
        player_name == strip(name)
    IN  IF strip(name) = "" THEN games
        ELSE SetRoom(code,
                     add_player(IF is_host /\ Falsy(game.host_name)
                                THEN [game EXCEPT !.host_name = player_name]
                                ELSE game, player_name, k).g)

\* render_sidebar / render_lobby, Leave Room
sidebar_leave(code, player_name) ==
    LET game == games[code]
    IN  SetRoom(code, IF player_name \in PlayerKeys(game)
                      THEN DelItem(game, player_name) ELSE game)

\* is_host of render_lobby and render_game
IsHost(code, player_name, is_host) == is_host /\ player_name = games[code].host_name

\* render_lobby is reached, and its Start Game button is enabled
LobbyStartEnabled(code, player_name, is_host) ==
    /\ code \in DOMAIN games
    /\ ~games[code].started
    /\ Falsy(games[code].winner)
    /\ IsHost(code, player_name, is_host)
    /\ Len(games[code].order) >= 1

lobby_start(code) == SetRoom(code, start_game(games[code]))

\* render_game is reached by the host's session
AutoCallEnabled(code, player_name, is_host) ==
    /\ code \in DOMAIN games
    /\ games[code].started
    /\ IsHost(code, player_name, is_host)
    /\ games[code].winner = None

game_auto_call(code, elapsed, number) ==
    SetRoom(code, maybe_auto_call(games[code], elapsed, number).g)

\* render_card_grid: disabled of the button of a cell
Disabled(game, card, col_index, row_index) ==
    LET value == card.card[col_index][row_index]
        is_free == <<col_index, row_index>> = FreeCell
        is_called == is_free \/ value \in called_numbers(game)
    IN  game.winner # None \/ ~is_called

\* render_card_grid is reached and the cell's button can be clicked
ClickEnabled(code, player_name, col_index, row_index) ==
    /\ code \in DOMAIN games
    /\ games[code].started
    /\ player_name \in PlayerKeys(games[code])
    /\ ~Disabled(games[code], games[code].players[player_name], col_index, row_index)

card_grid_click(code, player_name, col_index, row_index) ==
    LET game == games[code]
        card == game.players[player_name]
        value == card.card[col_index][row_index]
        is_free == <<col_index, row_index>> = FreeCell
        is_called == is_free \/ value \in called_numbers(game)
    IN  IF is_called /\ game.winner = None
        THEN SetRoom(code,
                     check_winner([game EXCEPT !.players[player_name] =
                                       toggle_mark(card, col_index, row_index)]).g)
        ELSE games

\* render_game, lines 413-452: the winner check that ends every run
game_winner_check(code) ==
    LET game == games[code]
    IN  IF ~Falsy(game.winner)
        THEN SetRoom(code, [game EXCEPT !.started = FALSE])
        ELSE SetRoom(code, check_winner(game).g)

Ran(gs) == games' = gs /\ UNCHANGED <<seed, calls, ret, workers>>

UiGenerate(room_code) == Ran(landing_generate(room_code))

UiEnterRoom(code, name, is_host, k) ==
    /\ code \in DOMAIN games
    /\ Ran(name_entry(code, name, is_host, k))

UiLeave(code, player_name) ==
    /\ code \in DOMAIN games
    /\ Ran(sidebar_leave(code, player_name))

UiStart(code, player_name, is_host) ==
    /\ LobbyStartEnabled(code, player_name, is_host)
    /\ Ran(lobby_start(code))

UiAutoCall(code, player_name, is_host, elapsed) ==
    /\ AutoCallEnabled(code, player_name, is_host)
    /\ IF remaining_numbers(games[code]) # {} /\ elapsed
       THEN \E number \in Draws(games[code]) : Ran(game_auto_call(code, elapsed, number))
       ELSE Ran(game_auto_call(code, elapsed, NoNumber))

UiToggle(code, player_name, col_index, row_index) ==
    /\ ClickEnabled(code, player_name, col_index, row_index)
    /\ Ran(card_grid_click(code, player_name, col_index, row_index))

UiRender(code, player_name) ==
    /\ code \in DOMAIN games
    /\ games[code].started
    /\ player_name \in PlayerKeys(games[code])
    /\ Ran(game_winner_check(code))

(* --------------------------- specification ---------------------------- *)

\* req.number: the called numbers, the Free sentinel 0, a number on no
\* card, and no number
MarkInputs == CallPool \cup {0, 10, NoNumber}

\* what the Your Name text input can hold
NameInputs == Names \cup {"", " ", " alice "}

Init ==
    /\ games = [c \in {} |-> BingoGame]
    /\ seed = 0
    /\ calls = 0
    /\ ret = NoNumber
    /\ workers = NoWorkers

\* a request whose room_code is missing or unknown is answered before its
\* other fields are read: one request of each action stands for them
BadCode(c) == c \notin RoomCodes

Next ==
    \/ \E c \in RoomCodes, u \in Usernames, k \in CardChoices : RestCreate(c, u, k)
    \/ \E c \in CodeInputs, u \in Usernames, k \in CardChoices :
          /\ BadCode(c) => u = None /\ k = 1
          /\ RestJoin(c, u, k)
    \/ \E c \in CodeInputs, u \in Usernames :
          /\ BadCode(c) => u = None
          /\ RestStart(c, u)
    \/ \E c \in CodeInputs, u \in Usernames :
          /\ BadCode(c) => u = None
          /\ RestCall(c, u)
    \/ \E c \in CodeInputs, u \in Usernames, n \in MarkInputs :
          /\ BadCode(c) => u = None /\ n = 0
          /\ RestMark(c, u, n)
    \/ \E c \in CodeInputs : RestState(c)
    \/ \E c \in CodeInputs, u \in Usernames, b \in BOOLEAN :
          /\ BadCode(c) => u = None /\ b
          /\ RestRestartRound(c, u, b)
    \/ \E c \in CodeInputs, u \in Usernames :
          /\ BadCode(c) => u = None
          /\ RestLeave(c, u)
    \/ \E c \in CodeInputs : RestInvalid(c)
    \/ \E c \in RoomCodes : UiGenerate(c)
    \/ \E c \in RoomCodes, u \in NameInputs, h \in BOOLEAN, k \in CardChoices :
          UiEnterRoom(c, u, h, k)
    \/ \E c \in RoomCodes, u \in Names \cup {None} : UiLeave(c, u)
    \/ \E c \in RoomCodes, u \in Names, h \in BOOLEAN : UiStart(c, u, h)
    \/ \E c \in RoomCodes, u \in Names, h \in BOOLEAN, e \in BOOLEAN : UiAutoCall(c, u, h, e)
    \/ \E c \in RoomCodes, u \in Names, col \in Range5, row \in Range5 :
          UiToggle(c, u, col, row)
    \/ \E c \in RoomCodes, u \in Names : UiRender(c, u)

Spec == Init /\ [][Next]_vars

(* ------------------------- exhaustion runs ---------------------------- *)

\* random.choice(seq) is seq[floor(random() * len(seq))]; the candidates
\* are listed in ascending order
Choice(S, sd) ==
    CHOOSE n \in S : Cardinality({m \in S : m < n}) = (Cardinality(S) * sd) \div RandDenom

TheRoom == CHOOSE c \in RoomCodes : TRUE

\* a fresh running game: create, then start by its host
ExhaustInit ==
    /\ \E u \in Usernames, k \in CardChoices :
          games = [c \in {TheRoom} |-> start_game(created_game(u, k))]
    /\ seed \in 0..(RandDenom - 1)
    /\ calls = 0
    /\ ret = NoNumber
    /\ workers = NoWorkers

\* the host's call request
ExhaustCall ==
    /\ calls < MaxCalls
    /\ LET game == games[TheRoom]
           number == IF remaining_numbers(game) = {} THEN NoNumber
                     ELSE Choice(remaining_numbers(game), seed)
       IN  /\ games' = action_call(TheRoom, game.host_name, number).games
           /\ ret' = call_number(game, number).ret
    /\ calls' = calls + 1
    /\ UNCHANGED <<seed, workers>>

ExhaustNext == ExhaustCall

SpecExhaust == ExhaustInit /\ [][ExhaustNext]_vars

(* --------------------------- marking runs ----------------------------- *)

\* the game an exhaustion run with seed 0 ends in: one player, the host,
\* and the 75 numbers called in ascending order
MarksInit ==
    /\ games = [c \in {TheRoom} |->
                   [start_game(created_game("alice", 1))
                       EXCEPT !.called_numbers_ordered = [i \in 1..75 |-> i]]]
    /\ seed = 0
    /\ calls = 75
    /\ ret = 75
    /\ workers = NoWorkers

\* the player's mark request for a number of the card
MarksMark(number) ==
    /\ Cardinality(games[TheRoom].players["alice"].marked) <= MaxMarks
    /\ find_position(games[TheRoom].players["alice"], number) # None
    /\ Handled(action_mark(TheRoom, "alice", number))

MarksNext == \E number \in BINGO_NUMBERS : MarksMark(number)

SpecMarks == MarksInit /\ [][MarksNext]_vars

(* ----------------------------- card runs ------------------------------ *)

\* One room with the host alice and the player Alice, cards of NumGrids
\* grids: create, join, start, call, mark, restart_round and clicks.

GridChoices == 1..NumGrids

CardsRestartRound(code, username, new_cards) ==
    /\ code \in DOMAIN games
    /\ \E ks \in [PlayerKeys(games[code]) -> GridChoices] :
          Handled(action_restart_round(code, username, new_cards, ks))

CardsNext ==
    \/ \E k \in GridChoices : RestCreate(TheRoom, "alice", k)
    \/ \E k \in GridChoices : RestJoin(TheRoom, "Alice", k)
    \/ RestStart(TheRoom, "alice")
    \/ RestCall(TheRoom, "alice")
    \/ \E u \in Names, n \in CallPool : RestMark(TheRoom, u, n)
    \/ \E b \in BOOLEAN : CardsRestartRound(TheRoom, "alice", b)
    \/ \E u \in Names, col \in Range5, row \in Range5 : UiToggle(TheRoom, u, col, row)

SpecCards == Init /\ [][CardsNext]_vars

(* ----------------------------- room runs ------------------------------ *)

\* Two rooms, each with the host alice and the player Alice on grid 1.  The
\* host marks any number of the pool, the other player its smallest.

RoomCodes2 == {"R1", "R2"}

RoomsNext ==
    \/ \E c \in RoomCodes2 : RestCreate(c, "alice", 1)
    \/ \E c \in RoomCodes2 : RestJoin(c, "Alice", 1)
    \/ \E c \in RoomCodes2 : RestStart(c, "alice")
    \/ \E c \in RoomCodes2 : RestCall(c, "alice")
    \/ \E c \in RoomCodes2, n \in CallPool : RestMark(c, "alice", n)
    \/ \E c \in RoomCodes2 : RestMark(c, "Alice", Min(CallPool))

SpecRooms == Init /\ [][RoomsNext]_vars

(* ----------------------------- name runs ------------------------------ *)

\* One room; the requests and the sessions carry names with and without
\* blanks: create, join, leave, start, Generate Room Code and Enter Room.

RequestNames == NameInputs \cup {None}

NamesNext ==
    \/ \E u \in RequestNames : RestCreate(TheRoom, u, 1)
    \/ \E u \in RequestNames : RestJoin(TheRoom, u, 1)
    \/ \E u \in RequestNames : RestLeave(TheRoom, u)
    \/ \E u \in RequestNames : RestStart(TheRoom, u)
    \/ UiGenerate(TheRoom)
    \/ \E u \in NameInputs, h \in BOOLEAN : UiEnterRoom(TheRoom, u, h, 1)

SpecNames == Init /\ [][NamesNext]_vars

(* ---------------------------- thread runs ----------------------------- *)

\* bingo_action is a plain def: the server runs each request in a thread
\* of its pool, and nothing in the handler or in BingoGame takes a lock.
\* A thread can be switched between any two statements; here it is
\* switched between reading the candidates and appending the number in
\* call_number, and at each test and assignment of check_winner.

\* the middle of a round: alice (host) and Alice joined, 3, 18, 33 and 48
\* are called and both have marked 3, 18 and 48
MidRound ==
    LET joined == add_player(created_game("alice", 1), "Alice", 1).g
        row == {<<0, 2>>, <<1, 2>>, FreeCell, <<3, 2>>}
    IN  [start_game(joined) EXCEPT !.called_numbers_ordered = <<3, 18, 33, 48>>,
                                  !.players = [n \in Names |->
                                                  [@[n] EXCEPT !.marked = row]]]

ThreadsInit ==
    /\ games = [c \in {TheRoom} |-> MidRound]
    /\ seed = 0
    /\ calls = 0
    /\ ret = NoNumber
    /\ workers = NoWorkers

Goes(w, gs, next) ==
    /\ games' = gs
    /\ workers' = [workers EXCEPT ![w] = next]
    /\ UNCHANGED <<seed, calls, ret>>

\* call, up to number = random.choice(remaining_numbers)
CallBegin(w, username) ==
    /\ workers[w].pc = "idle"
    /\ action_call(TheRoom, username, NoNumber).status = 200
    /\ \E number \in Draws(games[TheRoom]) :
          Goes(w, games, [Idle EXCEPT !.pc = "append", !.number = number])

\* self.called_numbers_ordered.append(number), and the return
CallAppend(w) ==
    /\ workers[w].pc = "append"
    /\ Goes(w, SetRoom(TheRoom, [games[TheRoom] EXCEPT !.called_numbers_ordered =
                                    Append(@, workers[w].number)]), Idle)

\* mark, up to the call of check_winner
MarkBegin(w, username, number) ==
    /\ workers[w].pc = "idle"
    /\ action_mark(TheRoom, username, number).status = 200
    /\ LET game == games[TheRoom]
           pos == find_position(game.players[username], number)
       IN  Goes(w, SetRoom(TheRoom, IF number # 0 /\ pos # FreeCell
                                   THEN [game EXCEPT !.players[username].marked =
                                                         @ \cup {pos}]
                                   ELSE game),
                [Idle EXCEPT !.pc = "loop", !.i = 1])

\* check_winner: the next item of self.players.items() and its check_bingo
WinnerLoop(w) ==
    /\ workers[w].pc = "loop"
    /\ LET game == games[TheRoom]
           i == workers[w].i
       IN  IF i > Len(game.order) THEN Goes(w, games, Idle)
           ELSE IF check_bingo(game.players[game.order[i]])
                THEN Goes(w, games, [Idle EXCEPT !.pc = "test",
                                                 !.player_name = game.order[i]])
                ELSE Goes(w, games, [Idle EXCEPT !.pc = "loop", !.i = i + 1])

\* check_winner: if self.winner is None
WinnerTest(w) ==
    /\ workers[w].pc = "test"
    /\ IF games[TheRoom].winner = None
       THEN Goes(w, games, [workers[w] EXCEPT !.pc = "set"])
       ELSE Goes(w, games, Idle)

\* check_winner: self.winner = player_name, and the return
WinnerSet(w) ==
    /\ workers[w].pc = "set"
    /\ Goes(w, SetRoom(TheRoom, [games[TheRoom] EXCEPT !.winner = workers[w].player_name]),
            Idle)

ThreadsNext ==
    \E w \in Workers :
        \/ CallBegin(w, "alice")
        \/ CallAppend(w)
        \/ \E u \in Names, n \in CallPool : MarkBegin(w, u, n)
        \/ WinnerLoop(w)
        \/ WinnerTest(w)
        \/ WinnerSet(w)

SpecThreads == ThreadsInit /\ [][ThreadsNext]_vars

(* ----------------------------- round runs ----------------------------- *)

\* One round of a room whose host alice is its only player.  The host
\* calls, by request or by the auto-call of the session, and the player
\* marks every called number of the card before the next call.

RoundInit ==
    /\ \E k \in CardChoices :
          games = [c \in {TheRoom} |-> start_game(created_game("alice", k))]
    /\ seed \in 0..(RandDenom - 1)
    /\ calls = 0
    /\ ret = NoNumber
    /\ workers = NoWorkers

\* the called numbers of the player's card that are not marked
Unmarked(g, name) ==
    {n \in called_numbers(g) :
        /\ find_position(g.players[name], n) # None
        /\ find_position(g.players[name], n) \notin g.players[name].marked}

\* what random.choice returns in a round run
RoundDraw(g) ==
    IF remaining_numbers(g) = {} THEN NoNumber ELSE Choice(remaining_numbers(g), seed)

\* the host's call request
RoundCall ==
    /\ calls < MaxCalls
    /\ Unmarked(games[TheRoom], "alice") = {}
    /\ games' = action_call(TheRoom, "alice", RoundDraw(games[TheRoom])).games
    /\ ret' = call_number(games[TheRoom], RoundDraw(games[TheRoom])).ret
    /\ calls' = calls + 1
    /\ UNCHANGED <<seed, workers>>

\* the auto-call of the host's session, the interval elapsed
RoundAutoCall ==
    /\ calls < MaxCalls
    /\ Unmarked(games[TheRoom], "alice") = {}
    /\ AutoCallEnabled(TheRoom, "alice", TRUE)
    /\ games' = game_auto_call(TheRoom, TRUE, RoundDraw(games[TheRoom]))
    /\ ret' = maybe_auto_call(games[TheRoom], TRUE, RoundDraw(games[TheRoom])).ret
    /\ calls' = calls + 1
    /\ UNCHANGED <<seed, workers>>

\* the player's mark request for a called number of the card
RoundMark ==
    \E number \in Unmarked(games[TheRoom], "alice") :
        Handled(action_mark(TheRoom, "alice", number))

RoundNext == RoundCall \/ RoundAutoCall \/ RoundMark

SpecRound == RoundInit /\ [][RoundNext]_vars

\* the host keeps calling and the player keeps marking
SpecRoundFair == SpecRound /\ WF_vars(RoundCall) /\ WF_vars(RoundMark)

(* ------------------------------ claims -------------------------------- *)

Rooms == DOMAIN games

HasBingo(g, n) == check_bingo(g.players[n])

\* position of a key in the insertion order
Place(g, n) == CHOOSE i \in 1..Len(g.order) : g.order[i] = n

NoDuplicates(s) == \A i, j \in 1..Len(s) : i # j => s[i] # s[j]

\* C1: check_winner changes winner only when no winner is recorded and some
\* card has a complete line, and then to the first such player in insertion
\* order; otherwise it leaves the game as it is
C1_CheckWinnerFirstWriter ==
    \A c \in Rooms :
        LET g == games[c]
            after == check_winner(g).g
            winners == {n \in PlayerKeys(g) : HasBingo(g, n)}
        IN  IF g.winner = None /\ winners # {}
            THEN /\ after.winner \in winners
                 /\ \A n \in winners : Place(g, after.winner) <= Place(g, n)
                 /\ after = [g EXCEPT !.winner = after.winner]
            ELSE after = g

\* a winner is recorded and a player inserted before the winner has a
\* complete line too: check_winner meets the other player first
C1_Witness ==
    \E c \in Rooms :
        LET g == games[c]
        IN  /\ g.winner \in PlayerKeys(g)
            /\ \E n \in PlayerKeys(g) :
                  /\ n # g.winner
                  /\ HasBingo(g, n)
                  /\ Place(g, n) < Place(g, g.winner)

\* C2: check_winner returns the value the winner field holds after the call
C2_ReturnsWinnerField ==
    \A c \in Rooms : check_winner(games[c]).ret = check_winner(games[c]).g.winner

\* the step replaces the Game object of the room by a new one
IsCreateStep(c) ==
    \/ \E u \in Usernames, k \in CardChoices : games' = action_create(c, u, k).games
    \/ games' = landing_generate(c)

IsResetStep(c) ==
    \E keep \in BOOLEAN, ks \in NewCards(c) : games'[c] = reset_round(games[c], keep, ks)

IsStartStep(c) == games'[c] = start_game(games[c])

\* C3 as stated: a recorded winner of a game changes only by reset_round
C3_WinnerKeptUntilReset ==
    [][\A c \in Rooms :
          (games[c].winner # None /\ games'[c].winner # games[c].winner /\ ~IsCreateStep(c))
          => IsResetStep(c)]_vars

\* C3 amended: a recorded winner of a game changes only by reset_round or
\* by start_game
C3_WinnerKeptUntilResetOrStart ==
    [][\A c \in Rooms :
          (games[c].winner # None /\ games'[c].winner # games[c].winner /\ ~IsCreateStep(c))
          => IsResetStep(c) \/ IsStartStep(c)]_vars

\* the winner left the room, the game was not started since and another
\* player joined: the winner is still recorded
C3_Witness ==
    \E c \in Rooms :
        /\ games[c].winner # None
        /\ games[c].winner \notin PlayerKeys(games[c])
        /\ PlayerKeys(games[c]) # {}

\* C4: a recorded winner is a key of players
C4_WinnerIsPlayer ==
    \A c \in Rooms : games[c].winner # None => games[c].winner \in PlayerKeys(games[c])

\* C5: the called numbers are numbers of 1..75, none of them twice
C5_CalledDistinctInRange ==
    \A c \in Rooms :
        /\ \A i \in 1..Len(games[c].called_numbers_ordered) :
              games[c].called_numbers_ordered[i] \in 1..75
        /\ NoDuplicates(games[c].called_numbers_ordered)

\* a second round in which every number of the pool was called
C5_Witness ==
    \E c \in Rooms :
        /\ called_numbers(games[c]) = CallPool
        /\ \E n \in PlayerKeys(games[c]) : games[c].players[n].marked = {FreeCell}
        /\ games[c].winner # None

\* C6: on a fresh running game each of the first 75 calls returns a number
\* not called before, after them the called numbers are a permutation of
\* 1..75, and every later call returns None, answers 200 and leaves the
\* called numbers as they are
C6_SeventyFiveThenNone ==
    LET g == games[TheRoom]
        called == g.called_numbers_ordered
    IN  /\ calls <= 75 =>
              /\ Len(called) = calls
              /\ NoDuplicates(called)
              /\ called_numbers(g) \subseteq BINGO_NUMBERS
              /\ calls >= 1 => ret = called[calls]
        /\ calls >= 75 =>
              /\ Len(called) = 75
              /\ called_numbers(g) = BINGO_NUMBERS
              /\ action_call(TheRoom, g.host_name, NoNumber).status = 200
              /\ action_call(TheRoom, g.host_name, NoNumber).games = games
        /\ calls > 75 => ret = NoNumber

\* the 76th and the 77th call were made
C6_Witness ==
    /\ calls = 77
    /\ ret = NoNumber
    /\ Len(games[TheRoom].called_numbers_ordered) = 75

\* number of the cell of a card
CellNumber(card, pos) == card.card[pos[1]][pos[2]]

Cells == Range5 \X Range5

\* C7: a mark request for a number that was not called is answered 400 and
\* changes nothing, the button of a cell whose number was not called is
\* disabled and a click on it changes nothing, and whatever a request or a
\* click marks is the Free cell or the cell of a called number
C7_UncalledMarkRejected ==
    \A c \in Rooms :
        \A u \in PlayerKeys(games[c]) :
            LET g == games[c]
                card == g.players[u]
            IN  /\ \A n \in BINGO_NUMBERS \ called_numbers(g) :
                      /\ action_mark(c, u, n).status = 400
                      /\ action_mark(c, u, n).games = games
                /\ \A n \in BINGO_NUMBERS \cup {0} :
                      \A pos \in action_mark(c, u, n).games[c].players[u].marked \ card.marked :
                          CellNumber(card, pos) \in called_numbers(g)
                /\ \A pos \in Cells \ {FreeCell} :
                      CellNumber(card, pos) \notin called_numbers(g) =>
                          /\ Disabled(g, card, pos[1], pos[2])
                          /\ card_grid_click(c, u, pos[1], pos[2]) = games
                /\ \A pos \in Cells :
                      \A q \in card_grid_click(c, u, pos[1], pos[2])[c].players[u].marked
                                  \ card.marked :
                          CellNumber(card, q) \in called_numbers(g)

\* a player has marked a called number and another number of the card is
\* not called
C7_Witness ==
    \E c \in Rooms :
        \E u \in PlayerKeys(games[c]) :
            /\ games[c].started
            /\ Cardinality(games[c].players[u].marked) = 3
            /\ \E n \in CallPool \ called_numbers(games[c]) :
                  find_position(games[c].players[u], n) # None

\* C8: start, call and restart_round of a requester who is not the host are
\* answered 403 and change nothing; the requester of one that is carried
\* out is the host, and so is the player of a session that can start or
\* auto-call
C8_NonHostForbidden ==
    \A c \in Rooms :
        \A u \in Usernames :
            LET g == games[c]
                started == action_start(c, u)
            IN  /\ u # g.host_name =>
                      /\ started.status = 403 /\ started.games = games
                      /\ \A n \in Draws(g) \cup {NoNumber} :
                            /\ action_call(c, u, n).status = 403
                            /\ action_call(c, u, n).games = games
                      /\ \A b \in BOOLEAN, ks \in NewCards(c) :
                            /\ action_restart_round(c, u, b, ks).status = 403
                            /\ action_restart_round(c, u, b, ks).games = games
                /\ u = g.host_name =>
                      /\ started.status = 200
                      /\ \A b \in BOOLEAN, ks \in NewCards(c) :
                            action_restart_round(c, u, b, ks).status = 200
                      /\ \A n \in Draws(g) \cup {NoNumber} :
                            action_call(c, u, n).status = (IF g.started THEN 200 ELSE 400)
                /\ \A h \in BOOLEAN :
                      LobbyStartEnabled(c, u, h) \/ AutoCallEnabled(c, u, h)
                          => u = g.host_name

\* a running game with called numbers, a mark and a winner, and a player
\* who is not the host
C8_Witness ==
    \E c \in Rooms :
        /\ games[c].started
        /\ games[c].called_numbers_ordered # <<>>
        /\ games[c].winner # None
        /\ games[c].host_name \in PlayerKeys(games[c])
        /\ \E u \in PlayerKeys(games[c]) : u # games[c].host_name

C10_AddPlayerFrame ==
    \A c \in Rooms :
        \A name \in Names, k \in CardChoices :
            LET g == games[c]
                r == add_player(g, name, k)
            IN  /\ name \notin PlayerKeys(g) =>
                      /\ r.ret = TRUE
                      /\ r.g.order = Append(g.order, name)
                      /\ DOMAIN r.g.players = DOMAIN g.players \cup {name}
                      /\ r.g.players[name].marked = {FreeCell}
                      /\ r.g.players[name].card = generate_card(k)
                      /\ \A n \in PlayerKeys(g) : r.g.players[n] = g.players[n]
                /\ name \in PlayerKeys(g) =>
                      /\ r.ret = FALSE
                      /\ r.g = g
                /\ action_join(c, name, k).games[c].players = r.g.players
                /\ action_join(c, name, k).games[c].order = r.g.order

\* alice is a player with marks and Alice is not a player
C10_Witness ==
    \E c \in Rooms :
        /\ "alice" \in PlayerKeys(games[c])
        /\ "Alice" \notin PlayerKeys(games[c])
        /\ Cardinality(games[c].players["alice"].marked) >= 3

\* C11: the Free cell is marked on every card of every reachable state, on
\* a new card, and on what clear_marks and toggle_mark of any cell, the
\* Free cell included, leave
C11_FreeAlwaysMarked ==
    /\ \A k \in CardChoices : FreeCell \in BingoCard(k).marked
    /\ \A c \in Rooms :
          \A n \in PlayerKeys(games[c]) :
              LET card == games[c].players[n]
              IN  /\ FreeCell \in card.marked
                  /\ FreeCell \in clear_marks(card).marked
                  /\ toggle_mark(card, 2, 2) = card
                  /\ \A pos \in Cells : FreeCell \in toggle_mark(card, pos[1], pos[2]).marked

\* a running game without a winner, where the button of the Free cell can
\* be clicked, and a card with two more marks
C11_Witness ==
    \E c \in Rooms :
        /\ games[c].started
        /\ games[c].winner = None
        /\ \E n \in PlayerKeys(games[c]) :
              /\ ClickEnabled(c, n, 2, 2)
              /\ Cardinality(games[c].players[n].marked) = 3

\* C14: start_game on any reachable game leaves started true and winner
\* None and everything else as it was, and the host's start request is
\* answered 200 and does just that
C14_StartGameFrame ==
    \A c \in Rooms :
        LET g == games[c]
            s == start_game(g)
        IN  /\ s.started = TRUE
            /\ s.winner = None
            /\ s.called_numbers_ordered = g.called_numbers_ordered
            /\ s.order = g.order
            /\ s.players = g.players
            /\ s.host_name = g.host_name
            /\ action_start(c, g.host_name).status = 200
            /\ action_start(c, g.host_name).games = SetRoom(c, s)

\* a won game that a render has stopped: numbers are called, the winner
\* is recorded and started is false
C14_Witness ==
    \E c \in Rooms :
        /\ ~games[c].started
        /\ games[c].winner \in PlayerKeys(games[c])
        /\ Len(games[c].called_numbers_ordered) >= 4

\* what maybe_auto_call and the auto-call of a session do to a game that is
\* not started: nothing
AutoCallIdle(c) ==
    /\ \A e \in BOOLEAN, n \in Draws(games[c]) \cup {NoNumber} :
          /\ maybe_auto_call(games[c], e, n).g = games[c]
          /\ maybe_auto_call(games[c], e, n).ret = NoNumber
    /\ \A u \in Usernames, h \in BOOLEAN : ~AutoCallEnabled(c, u, h)

\* C18 as stated: every call request to a game that is not started is
\* answered 400 and changes nothing, and neither does maybe_auto_call
C18_CallNotStartedInvalid ==
    \A c \in Rooms :
        ~games[c].started =>
            /\ \A u \in Usernames, n \in Draws(games[c]) \cup {NoNumber} :
                  /\ action_call(c, u, n).status = 400
                  /\ action_call(c, u, n).games = games
            /\ AutoCallIdle(c)

\* C18 amended: a call request to a game that is not started is answered
\* 400 when the requester is the host and 403 when not, it changes nothing,
\* and neither does maybe_auto_call
C18_CallNotStartedRejected ==
    \A c \in Rooms :
        ~games[c].started =>
            /\ \A u \in Usernames, n \in Draws(games[c]) \cup {NoNumber} :
                  /\ action_call(c, u, n).status =
                        (IF u = games[c].host_name THEN 400 ELSE 403)
                  /\ action_call(c, u, n).games = games
            /\ AutoCallIdle(c)

\* a lobby with the host and a second player after a round was reset
C18_Witness ==
    \E c \in Rooms :
        /\ ~games[c].started
        /\ games[c].called_numbers_ordered = <<>>
        /\ games[c].host_name \in PlayerKeys(games[c])
        /\ Len(games[c].order) = 2
        /\ remaining_numbers(games[c]) = BINGO_NUMBERS

\* C20: a request for a room code that is not in the store, and a mark or
\* leave request naming no player of the room, is answered 404 and changes
\* nothing
C20_UnknownIsNotFound ==
    /\ \A u \in Usernames, k \in CardChoices, n \in MarkInputs, b \in BOOLEAN :
          /\ UnknownCode \notin Rooms
          /\ action_join(UnknownCode, u, k) = Raise(404)
          /\ action_start(UnknownCode, u) = Raise(404)
          /\ action_call(UnknownCode, u, NoNumber) = Raise(404)
          /\ action_mark(UnknownCode, u, n) = Raise(404)
          /\ action_state(UnknownCode) = Raise(404)
          /\ action_restart_round(UnknownCode, u, b, [x \in {} |-> 1]) = Raise(404)
          /\ action_leave(UnknownCode, u) = Raise(404)
    /\ \A c \in Rooms :
          \A u \in Names \ PlayerKeys(games[c]) :
              /\ \A n \in BINGO_NUMBERS \cup {0} : action_mark(c, u, n) = Raise(404)
              /\ action_leave(c, u) = Raise(404)

\* the 12 lines of a card
Lines ==
    {{<<c, r>> : r \in Range5} : c \in Range5}
        \cup {{<<c, r>> : c \in Range5} : r \in Range5}
        \cup {{<<i, i>> : i \in Range5}, {<<i, 4 - i>> : i \in Range5}}

\* C13: check_bingo holds of a card exactly when one of the 12 lines is
\* within marked, and it does not hold of a new card
C13_BingoIffLine ==
    /\ Cardinality(Lines) = 12
    /\ \A k \in CardChoices : ~check_bingo(BingoCard(k))
    /\ \A c \in Rooms :
          \A n \in PlayerKeys(games[c]) :
              check_bingo(games[c].players[n])
                  <=> \E line \in Lines : line \subseteq games[c].players[n].marked

\* the five cells of the second diagonal are the marks of a card
C13_Witness ==
    \E c \in Rooms :
        \E n \in PlayerKeys(games[c]) :
            /\ games[c].players[n].marked = {<<i, 4 - i>> : i \in Range5}
            /\ games[c].winner = n

\* the grid of a card is 5 columns of 5 numbers, column c within
\* 15c+1 .. 15c+15, 25 different numbers in all
ValidGrid(grid) ==
    /\ DOMAIN grid = Range5
    /\ \A c \in Range5 :
          /\ DOMAIN grid[c] = Range5
          /\ \A r \in Range5 : grid[c][r] \in (15 * c + 1)..(15 * c + 15)
    /\ Cardinality({grid[pos[1]][pos[2]] : pos \in Cells}) = 25

\* the step puts a new game under the code, or is reset_round with new cards
CardsReplaced(c) ==
    \/ \E u \in Usernames, k \in GridChoices : games' = SetRoom(c, created_game(u, k))
    \/ \E ks \in [PlayerKeys(games[c]) -> GridChoices] :
          games'[c] = reset_round(games[c], FALSE, ks)

\* C12: the grid of every card of every reachable state is valid, and the
\* grid of a player changes only in a step that replaces the cards
C12_GridsValidAndKept ==
    /\ [](\A c \in Rooms : \A n \in PlayerKeys(games[c]) : ValidGrid(games[c].players[n].card))
    /\ [][\A c \in Rooms :
             \A n \in PlayerKeys(games[c]) :
                 (n \in PlayerKeys(games'[c])
                     /\ games'[c].players[n].card # games[c].players[n].card)
                 => CardsReplaced(c)]_vars

\* a running game whose two players hold different grids and have marks
C12_Witness ==
    \E c \in Rooms :
        /\ games[c].started
        /\ PlayerKeys(games[c]) = Names
        /\ games[c].players["alice"].card # games[c].players["Alice"].card
        /\ \A n \in Names : Cardinality(games[c].players[n].marked) >= 2

\* the other rooms are in out as they are in the store
OthersKept(c, out) ==
    /\ DOMAIN out.games = Rooms
    /\ \A d \in Rooms \ {c} : out.games[d] = games[d]

\* C17: a mark request of player u for room c leaves the other rooms as
\* they are and changes in room c at most the marked set of u and a winner
\* that was None; a request that is not answered 200 changes nothing; no
\* request of another action changes another room
C17_RequestFrame ==
    \A c \in Rooms :
        /\ \A u \in Usernames, n \in MarkInputs :
              LET out == action_mark(c, u, n)
                  g == games[c]
                  h == out.games[c]
              IN  /\ OthersKept(c, out)
                  /\ out.status # 200 => out.games = games
                  /\ h.order = g.order
                  /\ h.called_numbers_ordered = g.called_numbers_ordered
                  /\ h.started = g.started
                  /\ h.host_name = g.host_name
                  /\ h.winner # g.winner => g.winner = None
                  /\ \A p \in PlayerKeys(g) :
                        /\ h.players[p].card = g.players[p].card
                        /\ p # u => h.players[p] = g.players[p]
        /\ \A u \in Usernames, b \in BOOLEAN :
              /\ OthersKept(c, action_join(c, u, 1))
              /\ OthersKept(c, action_start(c, u))
              /\ \A n \in Draws(games[c]) \cup {NoNumber} : OthersKept(c, action_call(c, u, n))
              /\ \A ks \in NewCards(c) : OthersKept(c, action_restart_round(c, u, b, ks))
              /\ OthersKept(c, action_leave(c, u))
              /\ OthersKept(c, action_state(c))
              /\ OthersKept(c, action_create(c, u, 1))

\* two running rooms with different called numbers; one has a winner, in
\* the other both players have marked a number and there is no winner
C17_Witness ==
    \E c \in Rooms, d \in Rooms :
        /\ games[c].started /\ games[d].started
        /\ games[c].winner # None
        /\ games[d].winner = None
        /\ games[c].called_numbers_ordered # games[d].called_numbers_ordered
        /\ \A p \in Names :
              /\ p \in PlayerKeys(games[d])
              /\ Cardinality(games[d].players[p].marked) = 2

\* the name is empty or blanks only
Blank(name) == strip(name) = ""

\* C19: no key of players and no host_name is empty or blanks only, a join
\* request with such a name is answered 400 and changes nothing, and
\* neither does Enter Room with such a name
C19_NoBlankName ==
    \A c \in Rooms :
        /\ \A name \in {"", " "} :
              /\ action_join(c, name, 1) = Raise(400)
              /\ name_entry(c, name, TRUE, 1) = games
              /\ name_entry(c, name, FALSE, 1) = games
        /\ \A n \in PlayerKeys(games[c]) : ~Blank(n)
        /\ games[c].host_name # None => ~Blank(games[c].host_name)

\* the middle of a round of the thread runs is a state of the requests
\* taken one at a time
MidRoundReached == games = [c \in {TheRoom} |-> MidRound]

\* C15: the called numbers hold no number twice when call requests for the
\* room are handled side by side
C15_NoDuplicateUnderThreads ==
    NoDuplicates(games[TheRoom].called_numbers_ordered)

\* C16: a recorded winner is not replaced by another name when mark
\* requests with their check_winner are handled side by side
C16_WinnerNotOverwritten ==
    [][games[TheRoom].winner # None
          => games'[TheRoom].winner = games[TheRoom].winner]_vars

\* C21: every marked cell of every card, the Free cell aside, holds a
\* number that is among the called numbers of the room
C21_MarksAreCalled ==
    \A c \in Rooms :
        \A n \in PlayerKeys(games[c]) :
            \A pos \in games[c].players[n].marked \ {FreeCell} :
                CellNumber(games[c].players[n], pos) \in called_numbers(games[c])

\* a running game in which not all numbers of the pool are called, one
\* player has marked two of them and the other has a card without marks
C21_Witness ==
    \E c \in Rooms :
        /\ games[c].started
        /\ Len(games[c].called_numbers_ordered) \in 2..4
        /\ \E n \in PlayerKeys(games[c]) : Cardinality(games[c].players[n].marked) = 3
        /\ \E n \in PlayerKeys(games[c]) : games[c].players[n].marked = {FreeCell}

\* C24: host_name, when set, is a key of players, and the requester of a
\* start, call or restart_round request that is answered 200 is a key of
\* players
C24_PrivilegedAreMembers ==
    \A c \in Rooms :
        /\ games[c].host_name # None => games[c].host_name \in PlayerKeys(games[c])
        /\ \A u \in Usernames :
              /\ action_start(c, u).status = 200 => u \in PlayerKeys(games[c])
              /\ \A n \in Draws(games[c]) \cup {NoNumber} :
                    action_call(c, u, n).status = 200 => u \in PlayerKeys(games[c])
              /\ \A b \in BOOLEAN, ks \in NewCards(c) :
                    action_restart_round(c, u, b, ks).status = 200
                        => u \in PlayerKeys(games[c])

\* C25: a create request, and Generate Room Code, leaves every room of the
\* store as it is, whichever code generate_room_code returns
C25_CreateKeepsRooms ==
    \A c \in RoomCodes :
        /\ \A u \in Usernames, k \in CardChoices :
              \A d \in Rooms : action_create(c, u, k).games[d] = games[d]
        /\ \A d \in Rooms : landing_generate(c)[d] = games[d]

\* C22: while a winner is recorded no step appends to the called numbers
C22_NoCallAfterWin ==
    [][games[TheRoom].winner # None
          => games'[TheRoom].called_numbers_ordered = games[TheRoom].called_numbers_ordered]_vars

\* C23: when the host keeps calling and the player keeps marking, a winner
\* is recorded at last, and no later than when all 75 numbers are called
\* and marked
C23_RoundIsWon ==
    /\ <>(games[TheRoom].winner # None)
    /\ []((remaining_numbers(games[TheRoom]) = {} /\ Unmarked(games[TheRoom], "alice") = {})
             => games[TheRoom].winner # None)

\* the player has won by a mark after five calls or more, every called
\* number of the card marked
C23_Witness ==
    /\ games[TheRoom].winner = "alice"
    /\ calls >= 5
    /\ calls <= 75
    /\ Len(games[TheRoom].called_numbers_ordered) = calls
    /\ Unmarked(games[TheRoom], "alice") = {}
    /\ check_bingo(games[TheRoom].players["alice"])

====
